---- MODULE Spec2Model ----
(***************************************************************************)
(* State-machine model of scripts/generate_extensions_matrix.py: one run   *)
(* of main(), from the parsed arguments to the exit status.  The remote    *)
(* endpoints and the process environment are the nondeterministic parts:   *)
(* every HTTP request draws its response from a small set, and the         *)
(* GITHUB_TOKEN entry of os.environ may be changed between two steps.      *)
(*                                                                         *)
(* Representation.  Python dicts are TLA+ records (a missing key is a      *)
(* missing field), lists are sequences, Optional values are sequences of   *)
(* length 0 (None) or 1, text is a sequence of string tokens, and the      *)
(* standard streams and the CI output file are sequences of written lines. *)
(* The output sinks are assumed writable.                                  *)
(***************************************************************************)
EXTENDS Integers, Sequences, FiniteSets, TLC

(* ------------------------------ bounds -------------------------------- *)

\* Page size of the listing endpoint.  The program uses 100; the model uses
\* a small page so that full and short pages are both enumerable.
DEFAULT_PER_PAGE == 2

\* The catalog has finitely many pages: page MaxPages is never full.
MaxPages == 2

\* The catalog holds at most this many name-matching repositories.
MaxRepos == 2

(* ------------------------ configuration constants --------------------- *)

CATALOG_API_URL == "https://api.github.com/orgs/nwb-extensions/repos"

INACTIVE_EXTENSIONS ==
  { "ndx-simulation-output", "ndx-ecog", "ndx-icephys-meta", "ndx-nirs",
    "ndx-extract", "ndx-photometry", "ndx-acquisition-module",
    "ndx-odor-metadata", "ndx-whisk", "ndx-franklab-novela", "ndx-photostim",
    "ndx-ecg", "ndx-multichannel-volume", "ndx-depth-moseq", "ndx-hed",
    "ndx-microscopy" }

FALLBACK_EXTENSIONS ==
  << [name |-> "ndx-fret",
      repository |-> "https://github.com/catalystneuro/ndx-fret",
      pypi |-> "https://pypi.org/project/ndx-fret/"],
     [name |-> "ndx-events",
      repository |-> "https://github.com/rly/ndx-events",
      pypi |-> "https://pypi.org/project/ndx-events/"],
     [name |-> "ndx-sound",
      repository |-> "https://github.com/catalystneuro/ndx-sound/",
      pypi |-> "https://pypi.org/project/ndx-sound/"],
     [name |-> "ndx-ophys-devices",
      repository |-> "https://github.com/catalystneuro/ndx-ophys-devices",
      pypi |-> "https://pypi.org/project/ndx-ophys-devices/"],
     [name |-> "ndx-pose",
      repository |-> "https://github.com/rly/ndx-pose",
      pypi |-> "https://pypi.org/project/ndx-pose/"],
     [name |-> "ndx-fiber-photometry",
      repository |-> "https://github.com/catalystneuro/ndx-fiber-photometry",
      pypi |-> "https://pypi.org/project/ndx-fiber-photometry/"] >>

(* ----------------------------- the inputs ----------------------------- *)

\* Values of os.environ.get('GITHUB_TOKEN'); "" stands for unset or empty,
\* both falsy in the test of line 93.
Tokens == { "", "ghp_1" }

\* choices of --output-format
OutputFormats == { "github-actions", "json" }

\* Repository summaries the listing endpoint may return.  The first three
\* names match the record-repository convention; one of them carries no
\* html_url, one no default_branch; the last summary carries no name.
CatalogEntries ==
  { [name |-> "ndx-a-record",
     html_url |-> "https://github.com/nwb-extensions/ndx-a-record",
     default_branch |-> "dev"],
    [name |-> "ndx-ecog-record",
     html_url |-> "https://github.com/nwb-extensions/ndx-ecog-record"],
    [name |-> "ndx-b-record", default_branch |-> "main"],
    [name |-> "NDX-a-record",
     html_url |-> "https://github.com/nwb-extensions/NDX-a-record"],
    [name |-> "ndx-a-records",
     html_url |-> "https://github.com/nwb-extensions/ndx-a-records"],
    [html_url |-> "https://github.com/nwb-extensions/unnamed"] }

\* Bodies of a successful listing response: at most per_page summaries.
RECURSIVE SeqsUpTo(_, _)
SeqsUpTo(S, n) ==
  IF n = 0 THEN { <<>> }
  ELSE LET shorter == SeqsUpTo(S, n - 1)
       IN  shorter \cup { Append(s, e) : s \in shorter, e \in S }

PageBodies == SeqsUpTo(CatalogEntries, DEFAULT_PER_PAGE)

\* Parsed ndx-meta.yaml documents: complete ones (an active name, a second
\* active name, an inactive name) and ones lacking a required key.
MetaDocs ==
  { [name |-> "ndx-a", src |-> "https://github.com/lab/ndx-a",
     pip |-> "https://pypi.org/project/ndx-a/"],
    [name |-> "ndx-c", src |-> "https://github.com/lab/ndx-c",
     pip |-> "https://pypi.org/project/ndx-c/"],
    [name |-> "ndx-ecog", src |-> "https://github.com/lab/ndx-ecog",
     pip |-> "https://pypi.org/project/ndx-ecog/"],
    [name |-> "ndx-a", src |-> "https://github.com/lab/ndx-a"] }

\* Outcomes of the raw-content request: a transport or HTTP-status error, a
\* body that is not YAML, or a body that parses to one of MetaDocs.
MetaResponses ==
  { [status |-> "error"], [status |-> "ok", yaml |-> "invalid"] }
    \cup { [status |-> "ok", yaml |-> "valid", meta |-> m] : m \in MetaDocs }

(* ------------------------------- text --------------------------------- *)

\* The characters of the strings the name filter looks at.
Chars(s) ==
  CASE s = "ndx-"            -> <<"n","d","x","-">>
    [] s = "-record"         -> <<"-","r","e","c","o","r","d">>
    [] s = "ndx-a-record"    -> <<"n","d","x","-","a","-","r","e","c","o","r","d">>
    [] s = "ndx-b-record"    -> <<"n","d","x","-","b","-","r","e","c","o","r","d">>
    [] s = "ndx-ecog-record" ->
         <<"n","d","x","-","e","c","o","g","-","r","e","c","o","r","d">>
    [] s = "NDX-a-record"    -> <<"N","D","X","-","a","-","r","e","c","o","r","d">>
    [] s = "ndx-a-records"   ->
         <<"n","d","x","-","a","-","r","e","c","o","r","d","s">>
    [] s = "ndx-ecog"        -> <<"n","d","x","-","e","c","o","g">>

\* str.startswith
StartsWith(s, prefix) ==
  /\ Len(Chars(s)) >= Len(Chars(prefix))
  /\ SubSeq(Chars(s), 1, Len(Chars(prefix))) = Chars(prefix)

\* str.endswith
EndsWith(s, suffix) ==
  /\ Len(Chars(s)) >= Len(Chars(suffix))
  /\ SubSeq(Chars(s), Len(Chars(s)) - Len(Chars(suffix)) + 1, Len(Chars(s)))
       = Chars(suffix)

\* str(n) for the list lengths that occur
Str(n) ==
  CASE n = 0 -> "0" [] n = 1 -> "1" [] n = 2 -> "2" [] n = 3 -> "3"
    [] n = 4 -> "4" [] n = 5 -> "5" [] n = 6 -> "6" [] n = 7 -> "7"
    [] n = 8 -> "8" [] n = 9 -> "9"

\* json.dumps of a str: the text between double quotes
Quote(s) == <<"\"", s, "\"">>

\* the newline-and-indent json.dumps(indent=2) puts before an item at depth d
NewlineIndent(d) == <<"\n">> \o [i \in 1..(2 * d) |-> " "]

\* str.join over token sequences
RECURSIVE Join(_, _)
Join(parts, sep) ==
  IF Len(parts) = 0 THEN <<>>
  ELSE IF Len(parts) = 1 THEN parts[1]
  ELSE parts[1] \o sep \o Join(Tail(parts), sep)

\* json.dumps(matrix, separators=(',', ':')): keys in insertion order
DumpsCompact(m) ==
  LET item(r) == <<"{">> \o Quote("name") \o <<":">> \o Quote(r.name)
                   \o <<",">> \o Quote("repository") \o <<":">> \o Quote(r.repository)
                   \o <<",">> \o Quote("pypi") \o <<":">> \o Quote(r.pypi) \o <<"}">>
      items == [i \in 1..Len(m.extension) |-> item(m.extension[i])]
  IN  <<"{">> \o Quote("extension") \o <<":">> \o <<"[">> \o Join(items, <<",">>)
        \o <<"]">> \o <<"}">>

\* json.dumps(matrix, indent=2)
DumpsIndent(m) ==
  LET item(r) == <<"{">> \o NewlineIndent(3) \o Quote("name") \o <<": ">> \o Quote(r.name)
                   \o <<",">> \o NewlineIndent(3) \o Quote("repository") \o <<": ">>
                   \o Quote(r.repository)
                   \o <<",">> \o NewlineIndent(3) \o Quote("pypi") \o <<": ">> \o Quote(r.pypi)
                   \o NewlineIndent(2) \o <<"}">>
      items == [i \in 1..Len(m.extension) |-> item(m.extension[i])]
      list  == IF Len(items) = 0 THEN <<"[", "]">>
               ELSE <<"[">> \o NewlineIndent(2) \o Join(items, <<",">> \o NewlineIndent(2))
                      \o NewlineIndent(1) \o <<"]">>
  IN  <<"{">> \o NewlineIndent(1) \o Quote("extension") \o <<": ">> \o list
        \o NewlineIndent(0) \o <<"}">>

(* ------------------------------ state --------------------------------- *)

VARIABLES
  output_format,   \* args.output_format
  env_token,       \* os.environ: GITHUB_TOKEN ("" when unset)
  github_output,   \* os.environ: whether GITHUB_OUTPUT is set when main has
                   \* produced the matrix (FALSE until then)
  pc,              \* position of the run
  list_headers,    \* get_extension_record_repos: headers
  page,            \* get_extension_record_repos: page
  all_repos,       \* get_extension_record_repos: all_repos
  page_repos,      \* get_extension_record_repos: repos (body of the last page)
  repos,           \* fetch_extensions_from_catalog: repos
  headers,         \* fetch_extensions_from_catalog: headers
  idx,             \* fetch_extensions_from_catalog: position of the for loop
  extensions,      \* fetch_extensions_from_catalog / generate_matrix: extensions
  matrix,          \* main: matrix (None before generate_matrix returns)
  http,            \* the requests sent so far, each with its response
  stdout,          \* lines printed to sys.stdout
  stderr,          \* lines printed to sys.stderr
  out_file,        \* texts written to the file GITHUB_OUTPUT names
  exit_status      \* return value of main (None while running)

vars == << output_format, env_token, github_output, pc, list_headers,
           page, all_repos, page_repos, repos, headers, idx, extensions, matrix,
           http, stdout, stderr, out_file, exit_status >>

\* Python's None, and a present Optional value
None == <<>>
Some(v) == <<v>>

\* what an earlier workflow step left in the CI output file
PriorOutput == << <<"ref=main", "\n">> >>

Init ==
  /\ output_format \in OutputFormats
  /\ env_token \in Tokens
  /\ github_output = FALSE
  /\ pc = "main"
  /\ list_headers = {}
  /\ page = 1
  /\ all_repos = <<>>
  /\ page_repos = <<>>
  /\ repos = <<>>
  /\ headers = {}
  /\ idx = 1
  /\ extensions = <<>>
  /\ matrix = None
  /\ http = <<>>
  /\ stdout = <<>>
  /\ stderr = <<>>
  /\ out_file = PriorOutput
  /\ exit_status = None

(* ------------------------- get_github_headers ------------------------- *)

\* the returned dict, as a set of key/value pairs
GithubHeaders(token) ==
  IF token # ""
  THEN { [key |-> "Accept", value |-> <<"application/vnd.github+json">>],
         [key |-> "Authorization", value |-> <<"Bearer ", token>>] }
  ELSE {}

\* the line it prints to sys.stderr
GithubHeadersLog(token) ==
  IF token # "" THEN <<"Using GitHub token for authenticated requests">>
  ELSE <<"No GitHub token found - using unauthenticated requests">>

(* ---------------------- get_extension_record_repos -------------------- *)

\* the condition of the list comprehension
IsRecordRepo(repo) == StartsWith(repo.name, "ndx-") /\ EndsWith(repo.name, "-record")

\* the list comprehension: None when repo["name"] raises KeyError
RecordRepos(body) ==
  IF \E i \in 1..Len(body) : "name" \notin DOMAIN body[i] THEN None
  ELSE Some(SelectSeq(body, IsRecordRepo))

\* Variant: the stop test counts the record repositories of the page.
IsLastPage_Filtered(body) == Len(SelectSeq(body, IsRecordRepo)) < DEFAULT_PER_PAGE

\* the stop test after a non-empty page
IsLastPage(body) == Len(body) < DEFAULT_PER_PAGE

\* the request of line 114 with its outcome: ok, and the length of the body
ListRequest(ok, n) ==
  [kind |-> "list", url |-> CATALOG_API_URL, per_page |-> DEFAULT_PER_PAGE,
   page |-> page, headers |-> list_headers, ok |-> ok, count |-> n]

\* lines 106-108
ListerStart ==
  /\ pc = "main"
  /\ all_repos' = <<>>
  /\ page' = 1
  /\ list_headers' = GithubHeaders(env_token)
  /\ stderr' = Append(stderr, GithubHeadersLog(env_token))
  /\ pc' = "list"
  /\ UNCHANGED << output_format, env_token, github_output, page_repos,
                  repos, headers, idx, extensions, matrix, http, stdout, out_file,
                  exit_status >>

\* Variant: a failed request ends the loop and the lister returns what it
\* has gathered.
ListRequestFails_KeepPartial ==
  /\ pc = "list"
  /\ http' = Append(http, ListRequest(FALSE, 0))
  /\ stderr' = stderr \o << <<"Error: Failed to fetch repos from ", CATALOG_API_URL>>,
                            <<"Found ", Str(Len(all_repos)),
                              " NWB extension record repositories">> >>
  /\ repos' = all_repos
  /\ pc' = "fetch_start"
  /\ UNCHANGED << output_format, env_token, github_output, list_headers,
                  page, all_repos, page_repos, headers, idx, extensions, matrix, stdout,
                  out_file, exit_status >>

\* The request of line 114 fails or raise_for_status raises: the lister
\* re-raises, fetch_extensions_from_catalog catches and returns [].
ListRequestFails ==
  /\ pc = "list"
  /\ http' = Append(http, ListRequest(FALSE, 0))
  /\ stderr' = stderr \o << <<"Error: Failed to fetch repos from ", CATALOG_API_URL>>,
                            <<"Error: Failed to fetch repository list">> >>
  /\ extensions' = <<>>
  /\ pc' = "generate"
  /\ UNCHANGED << output_format, env_token, github_output, list_headers,
                  page, all_repos, page_repos, repos, headers, idx, matrix, stdout,
                  out_file, exit_status >>

\* A page arrives whose filter raises KeyError (a summary without "name"):
\* fetch_extensions_from_catalog catches and returns [].
ListPageMalformed ==
  /\ pc = "list"
  /\ \E body \in PageBodies :
       /\ page = MaxPages => Len(body) < DEFAULT_PER_PAGE
       /\ body # <<>>
       /\ RecordRepos(body) = None
       /\ http' = Append(http, ListRequest(TRUE, Len(body)))
       /\ page_repos' = body
  /\ stderr' = Append(stderr, <<"Error: Failed to fetch repository list">>)
  /\ extensions' = <<>>
  /\ pc' = "generate"
  /\ UNCHANGED << output_format, env_token, github_output, list_headers,
                  page, all_repos, repos, headers, idx, matrix, stdout, out_file,
                  exit_status >>

\* A full page arrives: its record repositories are kept and the next page
\* is asked for.
ListPageFull ==
  /\ pc = "list"
  /\ \E body \in PageBodies :
       /\ page = MaxPages => Len(body) < DEFAULT_PER_PAGE
       /\ body # <<>>
       /\ RecordRepos(body) # None
       /\ ~IsLastPage(body)
       /\ Len(all_repos \o RecordRepos(body)[1]) <= MaxRepos
       /\ http' = Append(http, ListRequest(TRUE, Len(body)))
       /\ page_repos' = body
       /\ all_repos' = all_repos \o RecordRepos(body)[1]
  /\ page' = page + 1
  /\ UNCHANGED << output_format, env_token, github_output, pc,
                  list_headers, repos, headers, idx, extensions, matrix, stdout, stderr,
                  out_file, exit_status >>

\* An empty or short page arrives: the loop ends and the lister returns
\* all_repos to fetch_extensions_from_catalog.
ListPageLast ==
  /\ pc = "list"
  /\ \E body \in PageBodies :
       /\ page = MaxPages => Len(body) < DEFAULT_PER_PAGE
       /\ body = <<>> \/ (RecordRepos(body) # None /\ IsLastPage(body))
       /\ LET kept == IF body = <<>> THEN all_repos
                      ELSE all_repos \o RecordRepos(body)[1]
          IN  /\ Len(kept) <= MaxRepos
              /\ all_repos' = kept
              /\ repos' = kept
              /\ stderr' = stderr \o << <<"Found ", Str(Len(kept)),
                                          " NWB extension record repositories">> >>
       /\ http' = Append(http, ListRequest(TRUE, Len(body)))
       /\ page_repos' = body
  /\ pc' = "fetch_start"
  /\ UNCHANGED << output_format, env_token, github_output, list_headers,
                  page, headers, idx, extensions, matrix, stdout, out_file,
                  exit_status >>

(* ----------------------- fetch_extension_metadata --------------------- *)

\* dict.get(key, default)
Get(d, key, default) == IF key \in DOMAIN d THEN d[key] ELSE default

\* Lines 143-144 stand before the try block: a summary without "name" or
\* "html_url" raises KeyError to the caller.
RaisesKeyError(repo) == "name" \notin DOMAIN repo \/ "html_url" \notin DOMAIN repo

\* raw_url
RawUrl(repo) ==
  << "https://raw.githubusercontent.com/nwb-extensions/", repo.name, "/",
     Get(repo, "default_branch", "main"), "/ndx-meta.yaml" >>

\* the keys read at lines 154-156
RequiredKeys == { "name", "src", "pip" }

\* the record of lines 162-166
ExtensionRecord(meta) ==
  [name |-> meta.name, repository |-> meta.src, pypi |-> meta.pip]

\* Variant: the exclusion looks at the repository's listing name.
FetchExtensionMetadata_ByRepoName(repo, resp) ==
  IF resp.status = "error"
  THEN [returned |-> None,
        log |-> << <<"Warning: Could not fetch metadata from ">> \o RawUrl(repo) >>]
  ELSE IF resp.yaml = "invalid"
  THEN [returned |-> None,
        log |-> << <<"Warning: Could not parse YAML from ">> \o RawUrl(repo) >>]
  ELSE IF ~(RequiredKeys \subseteq DOMAIN resp.meta)
  THEN [returned |-> None,
        log |-> << <<"Warning: Unexpected error processing ">> \o RawUrl(repo) >>]
  ELSE IF StartsWith(repo.name, "ndx-ecog")
  THEN [returned |-> None,
        log |-> << <<"Skipping inactive extension '", resp.meta.name, "'">> >>]
  ELSE [returned |-> Some(ExtensionRecord(resp.meta)), log |-> <<>>]

\* The try block, lines 149-178, for a summary that has both keys: the
\* returned value and the line printed to sys.stderr (none on success).
FetchExtensionMetadata(repo, resp) ==
  IF resp.status = "error"
  THEN [returned |-> None,
        log |-> << <<"Warning: Could not fetch metadata from ">> \o RawUrl(repo) >>]
  ELSE IF resp.yaml = "invalid"
  THEN [returned |-> None,
        log |-> << <<"Warning: Could not parse YAML from ">> \o RawUrl(repo) >>]
  ELSE IF ~(RequiredKeys \subseteq DOMAIN resp.meta)
  THEN [returned |-> None,
        log |-> << <<"Warning: Unexpected error processing ">> \o RawUrl(repo) >>]
  ELSE IF resp.meta.name \in INACTIVE_EXTENSIONS
  THEN [returned |-> None,
        log |-> << <<"Skipping inactive extension '", resp.meta.name, "'">> >>]
  ELSE [returned |-> Some(ExtensionRecord(resp.meta)), log |-> <<>>]

(* --------------------- fetch_extensions_from_catalog ------------------ *)

\* Variant: every request reads the token again.
MetaRequest_Reread(repo, resp, returned) ==
  [kind |-> "meta", url |-> RawUrl(repo), headers |-> GithubHeaders(env_token),
   repo |-> repo, resp |-> resp, returned |-> returned]

\* the request of line 150 with its response, and what the call returned
MetaRequest(repo, resp, returned) ==
  [kind |-> "meta", url |-> RawUrl(repo), headers |-> headers, repo |-> repo,
   resp |-> resp, returned |-> returned]

\* lines 193-194: a returned record is appended, None is not
Collect(exts, returned) == IF returned # None THEN Append(exts, returned[1]) ELSE exts

\* lines 189-190; the lister's frame, with the last page body, is gone
FetchStart ==
  /\ pc = "fetch_start"
  /\ headers' = GithubHeaders(env_token)
  /\ stderr' = Append(stderr, GithubHeadersLog(env_token))
  /\ extensions' = <<>>
  /\ idx' = 1
  /\ page_repos' = <<>>
  /\ pc' = "fetch"
  /\ UNCHANGED << output_format, env_token, github_output, list_headers,
                  page, all_repos, repos, matrix, http, stdout, out_file,
                  exit_status >>

\* One iteration of the loop of lines 191-194, the request included.
FetchOne ==
  /\ pc = "fetch"
  /\ idx <= Len(repos)
  /\ ~RaisesKeyError(repos[idx])
  /\ \E resp \in MetaResponses :
       LET out == FetchExtensionMetadata(repos[idx], resp)
       IN  /\ http' = Append(http, MetaRequest(repos[idx], resp, out.returned))
           /\ stderr' = stderr \o out.log
           /\ extensions' = Collect(extensions, out.returned)
  /\ idx' = idx + 1
  /\ UNCHANGED << output_format, env_token, github_output, pc,
                  list_headers, page, all_repos, page_repos, repos, headers, matrix,
                  stdout, out_file, exit_status >>

\* One iteration in which fetch_extension_metadata raises KeyError before
\* its try block: nothing up to main catches it, main prints and returns 1.
FetchRaises ==
  /\ pc = "fetch"
  /\ idx <= Len(repos)
  /\ RaisesKeyError(repos[idx])
  /\ stderr' = Append(stderr, <<"Error: Failed to generate extensions matrix">>)
  /\ exit_status' = Some(1)
  /\ pc' = "done"
  /\ UNCHANGED << output_format, env_token, github_output, list_headers,
                  page, all_repos, page_repos, repos, headers, idx, extensions, matrix,
                  http, stdout, out_file >>

\* lines 196-197: the loop is over
FetchReturn ==
  /\ pc = "fetch"
  /\ idx > Len(repos)
  /\ stderr' = Append(stderr, <<"Successfully fetched ", Str(Len(extensions)),
                                " extensions from catalog">>)
  /\ pc' = "generate"
  /\ UNCHANGED << output_format, env_token, github_output, list_headers,
                  page, all_repos, page_repos, repos, headers, idx, extensions, matrix,
                  http, stdout, out_file, exit_status >>

(* --------------------------- generate_matrix -------------------------- *)

\* Variant: the test is "extensions is None".
UseFallback_Never(exts) == FALSE

\* line 205: an empty list is falsy
UseFallback(exts) == Len(exts) = 0

\* Variant: the fallback list is added to whatever was collected.
MatrixExtensions_Pad(exts) == exts \o FALLBACK_EXTENSIONS

\* lines 205-207: the list the matrix is built from
MatrixExtensions(exts) == IF UseFallback(exts) THEN FALLBACK_EXTENSIONS ELSE exts

\* line 206: the line printed to sys.stderr when the fallback is taken
FallbackLog(exts) ==
  IF UseFallback(exts)
  THEN << <<"Warning: Could not fetch catalog, using fallback extensions list">> >>
  ELSE <<>>

\* lines 203-209
GenerateMatrix ==
  /\ pc = "generate"
  /\ stderr' = stderr \o FallbackLog(extensions)
  /\ matrix' = Some([extension |-> MatrixExtensions(extensions)])
  /\ pc' = "emit"
  /\ UNCHANGED << output_format, env_token, github_output, list_headers,
                  page, all_repos, page_repos, repos, headers, idx, extensions, http,
                  stdout, out_file, exit_status >>

(* -------------------------------- main -------------------------------- *)

\* line 235
CountLine(m) == <<"Generated matrix with ", Str(Len(m.extension)), " extensions">>

\* line 236
MatrixLine(m) == <<"matrix=">> \o DumpsCompact(m)

\* lines 235-236: what the github-actions branch prints to sys.stdout
GithubActionsStdout(m) == << CountLine(m), MatrixLine(m) >>

\* Variant: the file is written whether or not GITHUB_OUTPUT is set.
GithubActionsFile_Always(m, present) == << MatrixLine(m) \o <<"\n">> >>

\* lines 237-239: what the github-actions branch writes to the output file
GithubActionsFile(m, present) ==
  IF present THEN << MatrixLine(m) \o <<"\n">> >> ELSE <<>>

\* lines 233-239 and 243; GITHUB_OUTPUT is set or not, as the environment
\* has it at that time
EmitGithubActions ==
  /\ pc = "emit"
  /\ output_format = "github-actions"
  /\ github_output' \in BOOLEAN
  /\ stdout' = stdout \o GithubActionsStdout(matrix[1])
  /\ out_file' = out_file \o GithubActionsFile(matrix[1], github_output')
  /\ exit_status' = Some(0)
  /\ pc' = "done"
  /\ UNCHANGED << output_format, env_token, list_headers,
                  page, all_repos, page_repos, repos, headers, idx, extensions, matrix,
                  http, stderr >>

\* line 241: what the json branch prints to sys.stdout
JsonStdout(m) == << DumpsIndent(m) >>

\* lines 240-243; GITHUB_OUTPUT is set or not, and is not looked at
EmitJson ==
  /\ pc = "emit"
  /\ output_format # "github-actions"
  /\ github_output' \in BOOLEAN
  /\ stdout' = stdout \o JsonStdout(matrix[1])
  /\ out_file' = out_file
  /\ exit_status' = Some(0)
  /\ pc' = "done"
  /\ UNCHANGED << output_format, env_token, list_headers,
                  page, all_repos, page_repos, repos, headers, idx, extensions, matrix,
                  http, stderr >>

(* ----------------------------- environment ---------------------------- *)

\* os.environ['GITHUB_TOKEN'] is set, replaced or removed while main runs.
EnvChange ==
  /\ pc # "done"
  /\ env_token' \in Tokens \ { env_token }
  /\ UNCHANGED << output_format, github_output, pc, list_headers, page, all_repos,
                  page_repos, repos, headers, idx, extensions, matrix, http, stdout,
                  stderr, out_file, exit_status >>

Next ==
  \/ ListerStart
  \/ ListRequestFails
  \/ ListPageMalformed
  \/ ListPageFull
  \/ ListPageLast
  \/ FetchStart
  \/ FetchOne
  \/ FetchRaises
  \/ FetchReturn
  \/ GenerateMatrix
  \/ EmitGithubActions
  \/ EmitJson
  \/ EnvChange

Spec == Init /\ [][Next]_vars

(* ===================== properties of the program ====================== *)

\* the listing requests and the metadata requests sent so far, in order
ListLog == SelectSeq(http, LAMBDA e : e.kind = "list")
MetaLog == SelectSeq(http, LAMBDA e : e.kind = "meta")

\* lines of sys.stderr
TokenLine   == <<"Using GitHub token for authenticated requests">>
NoTokenLine == <<"No GitHub token found - using unauthenticated requests">>
FallbackLine == <<"Warning: Could not fetch catalog, using fallback extensions list">>
FatalLine   == <<"Error: Failed to generate extensions matrix">>

HeaderLines == SelectSeq(stderr, LAMBDA l : l \in { TokenLine, NoTokenLine })
FallbackTaken == \E i \in 1..Len(stderr) : stderr[i] = FallbackLine
ListerReturned == \E i \in 1..Len(stderr) : stderr[i][1] = "Found "
ListFailed == \E i \in 1..Len(http) : http[i].kind = "list" /\ ~http[i].ok

\* a metadata request whose response was fetched, parsed and complete
Parsed(e) ==
  /\ e.kind = "meta"
  /\ e.resp.status = "ok"
  /\ e.resp.yaml = "valid"
  /\ { "name", "src", "pip" } \subseteq DOMAIN e.resp.meta

\* the record such a response describes
RecordOf(e) ==
  [name |-> e.resp.meta.name, repository |-> e.resp.meta.src, pypi |-> e.resp.meta.pip]

\* the responses a record is due for
Usable(e) == Parsed(e) /\ e.resp.meta.name \notin INACTIVE_EXTENSIONS

\* the records due for a sequence of metadata requests, in order
RECURSIVE RecordsOf(_)
RecordsOf(log) ==
  IF log = <<>> THEN <<>>
  ELSE (IF Usable(log[1]) THEN << RecordOf(log[1]) >> ELSE <<>>) \o RecordsOf(Tail(log))

\* the names of the repository convention among CatalogEntries
RecordRepoNames == { "ndx-a-record", "ndx-ecog-record", "ndx-b-record" }

\* s has sub as a substring
Contains(s, sub) ==
  \E i \in 1..(Len(Chars(s)) - Len(Chars(sub)) + 1) :
     SubSeq(Chars(s), i, i + Len(Chars(sub)) - 1) = Chars(sub)

(* C1: the extension list of the returned matrix is either exactly          *)
(* FALLBACK_EXTENSIONS or consists only of records built from successfully  *)
(* fetched and parsed metadata whose name is not in INACTIVE_EXTENSIONS; a  *)
(* list holding both live records and fallback records is never returned.   *)
C1_LiveOrFallback ==
  matrix # None =>
    LET ext == matrix[1].extension
        usable == { j \in 1..Len(http) : Usable(http[j]) }
        live == { RecordOf(http[j]) : j \in usable }
    IN  \/ ext = FALLBACK_EXTENSIONS
        \/ /\ Len(ext) <= Cardinality(usable)
           /\ \A i \in 1..Len(ext) :
                ext[i] \in live /\ ext[i].name \notin INACTIVE_EXTENSIONS

\* a live matrix was returned in a run in which a candidate was excluded
C1_Witness ==
  /\ matrix # None
  /\ matrix[1].extension # FALLBACK_EXTENSIONS
  /\ \E i \in 1..Len(http) : Parsed(http[i]) /\ ~Usable(http[i])

(* C2 (as claimed): fetch_extension_metadata never raises to its caller,    *)
(* whatever the catalog entry lacks, so generate_matrix always returns a    *)
(* matrix to main: a finished run has one.                                  *)
C2_NeverRaises ==
  /\ pc = "done" => matrix # None
  /\ \A i \in 1..Len(stderr) : stderr[i] # FatalLine

(* C3: when the listing request of some page k >= 1 fails, the repositories *)
(* gathered from pages 1..k-1 are not returned, no metadata request is      *)
(* sent, the matrix is the fallback list verbatim and main returns 0.       *)
C3_ListFailureFallsBack ==
  ListFailed =>
    /\ repos = <<>>
    /\ extensions = <<>>
    /\ MetaLog = <<>>
    /\ matrix # None => matrix[1].extension = FALLBACK_EXTENSIONS
    /\ pc = "done" => (matrix # None /\ exit_status = Some(0))
    /\ Len(FALLBACK_EXTENSIONS) = 6

\* page 2 failed after page 1 had yielded record repositories
C3_Witness ==
  /\ pc = "done"
  /\ Len(ListLog) = 2
  /\ ~ListLog[2].ok
  /\ all_repos # <<>>
  /\ matrix = Some([extension |-> FALLBACK_EXTENSIONS])
  /\ exit_status = Some(0)

(* C4: generate_matrix takes the whole fallback list exactly when zero      *)
(* records were collected; the extension list of the returned matrix is     *)
(* never empty, and without the fallback it is the collected list.          *)
C4_FallbackIffEmpty ==
  matrix # None =>
    /\ Len(matrix[1].extension) > 0
    /\ FallbackTaken <=> Len(extensions) = 0
    /\ FallbackTaken => matrix[1].extension = FALLBACK_EXTENSIONS
    /\ ~FallbackTaken => matrix[1].extension = extensions

\* every candidate was tried and none gave a record
C4_Witness ==
  /\ matrix = Some([extension |-> FALLBACK_EXTENSIONS])
  /\ Len(repos) = 2
  /\ Len(MetaLog) = 2
  /\ extensions = <<>>

\* The listing requests so far are for pages 1, 2, ... in this order, every
\* one but the last was answered by a full page, and once the lister has
\* returned the last one was answered by a short page.
C5_Requests ==
  LET L == ListLog
  IN  /\ \A i \in 1..Len(L) :
           L[i].page = i /\ L[i].per_page = DEFAULT_PER_PAGE /\ L[i].url = CATALOG_API_URL
      /\ \A i \in 1..(Len(L) - 1) : L[i].ok /\ L[i].count = DEFAULT_PER_PAGE
      /\ ListerReturned =>
           /\ Len(L) >= 1
           /\ L[Len(L)].ok
           /\ L[Len(L)].count < DEFAULT_PER_PAGE
           /\ repos = all_repos

\* A step that receives a page: its name-matching items are appended to
\* all_repos, a full page is followed by the request for the next page, a
\* short page by the return of all_repos.  No other step sends a listing
\* request.
C5_PageStep ==
  /\ (pc # "list") => (ListLog' = ListLog)
  /\ ( /\ pc = "list"
       /\ Len(ListLog') = Len(ListLog) + 1
       /\ ListLog'[Len(ListLog')].ok
       /\ \A i \in 1..Len(page_repos') : "name" \in DOMAIN page_repos'[i] )
     => /\ ListLog'[Len(ListLog')].count = Len(page_repos')
        /\ all_repos' = all_repos
                         \o SelectSeq(page_repos', LAMBDA r : r.name \in RecordRepoNames)
        /\ Len(page_repos') = DEFAULT_PER_PAGE => (pc' = "list" /\ page' = page + 1)
        /\ Len(page_repos') < DEFAULT_PER_PAGE => (pc' = "fetch_start" /\ repos' = all_repos')

(* C5: after N full pages and one short page the lister has sent exactly    *)
(* N+1 requests, for pages 1..N+1 in this order, and returns the            *)
(* name-matching items of all the pages in page order; whether a page is    *)
(* the last is decided by its unfiltered length.                            *)
C5_Pagination == [] C5_Requests /\ [][C5_PageStep]_vars

\* N = 1: a full page of which one item does not match, then a short page
\* with one matching item; two requests, both matching items returned
C5_Witness ==
  /\ pc = "fetch_start"
  /\ Len(ListLog) = 2
  /\ ListLog[1].count = DEFAULT_PER_PAGE
  /\ ListLog[2].count = 1
  /\ Len(page_repos) = 1
  /\ page_repos[1].name \in RecordRepoNames
  /\ Len(repos) = DEFAULT_PER_PAGE
  /\ repos[Len(repos)] = page_repos[1]

(* C6 (as claimed): whichever candidates fail, the fetcher is called exactly *)
(* once per candidate in candidate order, and the collected list holds the   *)
(* records of the candidates that succeeded and were not excluded, in order, *)
(* duplicates included.                                                      *)
C6_OncePerCandidate ==
  (ListerReturned /\ pc \in { "generate", "emit", "done" }) =>
    /\ Len(MetaLog) = Len(repos)
    /\ \A i \in 1..Len(MetaLog) : MetaLog[i].repo = repos[i]
    /\ extensions = RecordsOf(MetaLog)

(* C7: whether a fetched and parsed candidate is excluded depends on the    *)
(* name field of its metadata only: the fetcher returns None exactly when   *)
(* that name is in INACTIVE_EXTENSIONS, whatever the repository is called.  *)
C7_ExclusionByMetaName ==
  \A i \in 1..Len(http) :
    Parsed(http[i]) =>
      /\ http[i].returned = None <=> http[i].resp.meta.name \in INACTIVE_EXTENSIONS
      /\ http[i].returned # None => http[i].returned[1] = RecordOf(http[i])

\* a repository named after an excluded extension gave a record, and one
\* with another name was excluded
C7_Witness ==
  \E i, j \in 1..Len(http) :
    /\ Parsed(http[i]) /\ Parsed(http[j])
    /\ Contains(http[i].repo.name, "ndx-ecog")
    /\ http[i].returned # None
    /\ ~Contains(http[j].repo.name, "ndx-ecog")
    /\ http[j].resp.meta.name = "ndx-ecog"
    /\ http[j].returned = None

(* C8 (as claimed): nothing but the matrix payload is ever written to       *)
(* sys.stdout, in either output format.                                     *)
C8_StdoutIsPayload ==
  \A i \in 1..Len(stdout) :
    /\ matrix # None
    /\ stdout[i] \in { DumpsIndent(matrix[1]), <<"matrix=">> \o DumpsCompact(matrix[1]) }

(* C9 (as claimed): a successful run writes the matrix to exactly one sink: *)
(* the output file in github-actions mode with GITHUB_OUTPUT set (one line, *)
(* nothing on sys.stdout), sys.stdout otherwise (file unchanged).           *)
C9_ExactlyOneSink ==
  (pc = "done" /\ exit_status = Some(0)) =>
    LET line == <<"matrix=">> \o DumpsCompact(matrix[1])
        onStdout == \E i \in 1..Len(stdout) :
                       stdout[i] \in { line, DumpsIndent(matrix[1]) }
    IN  IF output_format = "github-actions" /\ github_output
        THEN out_file = Append(PriorOutput, line \o <<"\n">>) /\ ~onStdout
        ELSE out_file = PriorOutput /\ onStdout

(* C9 (amended): in github-actions mode the line matrix=<compact JSON> is   *)
(* printed once to sys.stdout whether or not GITHUB_OUTPUT is set, and is   *)
(* appended once to the output file exactly when it is set; in json mode    *)
(* the indented matrix is printed to sys.stdout and the file is unchanged.  *)
C9_Sinks ==
  (pc = "done" /\ exit_status = Some(0)) =>
    LET line == <<"matrix=">> \o DumpsCompact(matrix[1])
    IN  IF output_format = "github-actions"
        THEN /\ Len(SelectSeq(stdout, LAMBDA l : l = line)) = 1
             /\ \A i \in 1..Len(line) : line[i] # "\n"
             /\ out_file = IF github_output THEN Append(PriorOutput, line \o <<"\n">>)
                           ELSE PriorOutput
        ELSE /\ stdout = << DumpsIndent(matrix[1]) >>
             /\ out_file = PriorOutput

\* github-actions mode with GITHUB_OUTPUT set: the line is in both sinks
C9_Witness ==
  /\ pc = "done"
  /\ output_format = "github-actions"
  /\ github_output
  /\ Len(out_file) = Len(PriorOutput) + 1
  /\ \E i \in 1..Len(stdout) : stdout[i] \o <<"\n">> = out_file[Len(out_file)]

(* C10 (as claimed): the token is read from the environment once per run    *)
(* and every request of the run, listing or metadata, carries the same      *)
(* headers.                                                                 *)
C10_ReadOnce ==
  /\ Len(HeaderLines) <= 1
  /\ \A i, j \in 1..Len(http) : http[i].headers = http[j].headers

(* C10 (amended): the token is read once before the first listing request   *)
(* and once more, after the listing returned, before the first metadata     *)
(* request; all listing requests carry the headers of the first read and    *)
(* all metadata requests those of the second read.                          *)
C10_ReadPerPhase ==
  /\ Len(HeaderLines) <= 2
  /\ http # <<>> => Len(HeaderLines) >= 1
  /\ \A i \in 1..Len(ListLog) :
       /\ ListLog[i].headers = {} <=> HeaderLines[1] = NoTokenLine
       /\ ListLog[i].headers # {} =>
            \E h \in ListLog[i].headers : h.key = "Authorization"
  /\ MetaLog # <<>> =>
       /\ Len(HeaderLines) = 2
       /\ \A i \in 1..Len(MetaLog) :
            MetaLog[i].headers = {} <=> HeaderLines[2] = NoTokenLine

\* the token changed between the two phases, and again during the second
C10_Witness ==
  /\ Len(MetaLog) = 2
  /\ ListLog[1].headers # MetaLog[1].headers
  /\ GithubHeaders(env_token) # MetaLog[2].headers

====
